---- MODULE Spec2Model ----
(***************************************************************************)
(* A model of uncertain.py: the class Uncertain (a mean and a symmetric    *)
(* uncertainty), its formatter __format__ / __str__, the helper _exponent  *)
(* and the parser Uncertain.from_string.                                   *)
(*                                                                         *)
(* Numbers.  A Python float is the record [c |-> c, x |-> x, ulp |-> u] in  *)
(* canonical form (c carries no trailing zero, zero has x = 0).  With      *)
(* ulp = 0 it is the double written c * 10^x, a short decimal; with        *)
(* ulp = 1 it is the double next to that one on the side of zero, as       *)
(* 999.9999999999999 is next to 1000.0.  Arithmetic on short decimals is   *)
(* taken as exact.  Where a neighbour goes through np.log10 or through a   *)
(* division by a power of ten, the result is the one IEEE-754 binary64     *)
(* rounding gives; the comments at FloorLog10 and Shift give the figures.  *)
(* The input sets leave out means whose dropped digits would be an exact   *)
(* rounding tie, which the binary representation decides.                  *)
(*                                                                         *)
(* Text.  A Python str is a sequence of one-character strings, so that     *)
(* the formatter builds and the parser splits real text; the characters    *)
(* U+00D7 and U+00B1 are the elements Times and PlusMinus.                 *)
(***************************************************************************)
EXTENDS Integers, Sequences, FiniteSets, TLC

\* Bounds of the input sets.
MaxLow == 2
MaxExp == 1
MaxDigits == 2
MaxRecursion == 3

(***************************************************************************)
(* Floats                                                                  *)
(***************************************************************************)
RECURSIVE Pow10(_)
Pow10(n) == IF n <= 0 THEN 1 ELSE 10 * Pow10(n - 1)

Abs(n) == IF n < 0 THEN -n ELSE n

Min(a, b) == IF a <= b THEN a ELSE b

RECURSIVE NumDigits(_)
NumDigits(n) == IF n < 10 THEN 1 ELSE 1 + NumDigits(n \div 10)

RECURSIVE Canon(_)
Canon(a) ==
    IF a.c = 0 THEN [c |-> 0, x |-> 0, ulp |-> 0]
    ELSE IF a.c % 10 = 0
    THEN Canon([c |-> a.c \div 10, x |-> a.x + 1, ulp |-> a.ulp])
    ELSE a

\* the double written c * 10^x
Dec(c, x) == Canon([c |-> c, x |-> x, ulp |-> 0])

\* the double next to c * 10^x on the side of zero, c # 0
Below(c, x) == Canon([c |-> c, x |-> x, ulp |-> 1])

\* The divisions <<|c|, x, e>> of the neighbour below |c| * 10^x by 10**e
\* whose quotient is rounded up to the quotient of the decimal itself:
\* 13.999999999999998 / 10 is 1.4 - 1.78e-16, the double 1.4 is 0.89e-16
\* from it and the double below 1.4 is 1.33e-16 from it, so the quotient
\* is the double 1.4, the same as 14.0 / 10.
RoundedUp == {<<14, 0, 1>>}

\* a * 10^k (k of either sign): `a * 10**k`, `a / 10**(-k)`.  The quotient
\* of a neighbour below is the neighbour below the quotient, or, where the
\* division rounds up, the quotient itself.
Shift(a, k) ==
    Canon([c |-> a.c, x |-> a.x + k,
           ulp |-> IF <<Abs(a.c), a.x, -k>> \in RoundedUp THEN 0 ELSE a.ulp])

\* np.abs
DecAbs(a) == [c |-> Abs(a.c), x |-> a.x, ulp |-> a.ulp]

\* np.sign
Sign(a) == IF a.c > 0 THEN 1 ELSE IF a.c < 0 THEN -1 ELSE 0

\* the integer a / 10^m for m <= a.x
AtExp(a, m) == a.c * Pow10(a.x - m)

\* a >= b for a, b >= 0; a neighbour below is less than its decimal
Geq(a, b) ==
    LET m == Min(a.x, b.x)
    IN  \/ AtExp(a, m) > AtExp(b, m)
        \/ AtExp(a, m) = AtExp(b, m) /\ a.ulp <= b.ulp

\* |a - b| <= t, to the digits of the decimals
Within(a, b, t) ==
    LET m == Min(Min(a.x, b.x), t.x)
    IN  Abs(AtExp(a, m) - AtExp(b, m)) <= AtExp(t, m)

\* int(np.floor(np.log10(a))) for a > 0.  For the neighbour below 10^k the
\* logarithm is short of k by less than 1e-16 and np.log10 gives the double
\* nearest to it.  The doubles next to k are 2.2e-16 or more apart for
\* k >= 2 and for k <= -1, so the result is k itself: np.log10 of
\* 999.9999999999999 is 3.0.  Next below 1 and around 0 they are closer,
\* and the result stays below k.
FloorLog10(a) ==
    IF a.ulp = 1 /\ a.c = 1 /\ a.x \in {0, 1} THEN a.x - 1
    ELSE NumDigits(a.c) - 1 + a.x

\* int(np.ceil(a / 10**(-digits))) for a >= 0
CeilScaled(a, digits) ==
    LET k == a.x + digits
    IN  IF k >= 0 THEN a.c * Pow10(k)
        ELSE (a.c + Pow10(-k) - 1) \div Pow10(-k)

\* int(a / 10**(-digits)) for a >= 0
TruncScaled(a, digits) ==
    LET k == a.x + digits
    IN  IF k >= 0 THEN a.c * Pow10(k) ELSE a.c \div Pow10(-k)

\* round(n / p) to the nearest integer, ties to even, for n >= 0
RoundHalfEven(n, p) ==
    LET q == n \div p
        r == n % p
    IN  IF 2 * r < p THEN q
        ELSE IF 2 * r > p THEN q + 1
        ELSE IF q % 2 = 0 THEN q ELSE q + 1

(***************************************************************************)
(* Text                                                                    *)
(***************************************************************************)
\* The two characters outside ASCII, which the model checker's state store
\* does not keep: each is one element of a text, under an ASCII name.
Times == "TIMES"

PlusMinus == "PM"

DigitText == <<"0", "1", "2", "3", "4", "5", "6", "7", "8", "9">>

DigitChar(d) == DigitText[d + 1]

IsDigit(ch) == \E d \in 0..9 : DigitText[d + 1] = ch

DigitVal(ch) == CHOOSE d \in 0..9 : DigitText[d + 1] = ch

Contains(s, ch) == \E i \in 1..Len(s) : s[i] = ch

\* index of the first ch in s, 0 when there is none
IndexOf(s, ch) ==
    IF Contains(s, ch)
    THEN CHOOSE i \in 1..Len(s) : s[i] = ch /\ \A j \in 1..(i - 1) : s[j] # ch
    ELSE 0

\* s[i:] (1-based i)
From(s, i) == SubSeq(s, i, Len(s))

\* str.split(ch)
RECURSIVE Split(_, _)
Split(s, ch) ==
    LET i == IndexOf(s, ch)
    IN  IF i = 0 THEN <<s>>
        ELSE <<SubSeq(s, 1, i - 1)>> \o Split(From(s, i + 1), ch)

\* str(n) for an int n >= 0
RECURSIVE IntText(_)
IntText(n) ==
    IF n < 10 THEN <<DigitChar(n)>>
    ELSE Append(IntText(n \div 10), DigitChar(n % 10))

\* the last w digits of n, zero filled
RECURSIVE Pad(_, _)
Pad(n, w) ==
    IF w <= 0 THEN <<>>
    ELSE Append(Pad(n \div 10, w - 1), DigitChar(n % 10))

\* the sign a format spec '+' or '' prints for a number
SignText(negative, f_sign) ==
    IF negative THEN <<"-">>
    ELSE IF f_sign = "+" THEN <<"+">> ELSE <<>>

\* f'{a:{f_sign}.{digits}f}' for digits >= 0; a neighbour below prints as
\* its decimal does, the decimal not being a rounding tie
FormatFixed(a, digits, f_sign) ==
    LET k == a.x + digits
        r == IF k >= 0 THEN Abs(a.c) * Pow10(k)
             ELSE RoundHalfEven(Abs(a.c), Pow10(-k))
        whole == r \div Pow10(digits)
        frac == r % Pow10(digits)
    IN  SignText(a.c < 0, f_sign) \o IntText(whole)
        \o (IF digits > 0 THEN <<".">> \o Pad(frac, digits) ELSE <<>>)

\* f'{a:{f_sign}}' for a short decimal a with 1e-4 <= |a| < 1e16: the
\* shortest positional text, with at least one digit after the point
FormatFloat(a, f_sign) ==
    LET n == Abs(a.c)
    IN  SignText(a.c < 0, f_sign)
        \o (IF a.x >= 0 THEN IntText(n * Pow10(a.x)) \o <<".", "0">>
            ELSE IntText(n \div Pow10(-a.x)) \o <<".">>
                 \o Pad(n % Pow10(-a.x), -a.x))

\* f'{int(e):+}'
FormatInt(e) == (IF e < 0 THEN <<"-">> ELSE <<"+">>) \o IntText(Abs(e))

\* s.strip(): Python's int() and float() ignore blanks at both ends
RECURSIVE Strip(_)
Strip(s) ==
    IF s = <<>> THEN s
    ELSE IF s[1] = " " THEN Strip(Tail(s))
    ELSE IF s[Len(s)] = " " THEN Strip(SubSeq(s, 1, Len(s) - 1))
    ELSE s

AllDigits(s) == \A i \in 1..Len(s) : IsDigit(s[i])

\* the int a digit string spells
RECURSIVE DigitsVal(_)
DigitsVal(s) ==
    IF s = <<>> THEN 0
    ELSE 10 * DigitsVal(SubSeq(s, 1, Len(s) - 1)) + DigitVal(s[Len(s)])

Unsigned(t) == IF t # <<>> /\ t[1] \in {"+", "-"} THEN Tail(t) ELSE t

IsNegative(t) == t # <<>> /\ t[1] = "-"

\* int(s): [ok |-> whether it parses, n |-> the value]
ParseInt(s) ==
    LET body == Unsigned(Strip(s))
    IN  IF body # <<>> /\ AllDigits(body)
        THEN [ok |-> TRUE,
              n |-> IF IsNegative(Strip(s)) THEN -DigitsVal(body) ELSE DigitsVal(body)]
        ELSE [ok |-> FALSE, n |-> 0]

\* a decimal literal without exponent: digits with at most one point
PlainLiteral(body) ==
    LET dot == IndexOf(body, ".")
        whole == IF dot = 0 THEN body ELSE SubSeq(body, 1, dot - 1)
        frac == IF dot = 0 THEN <<>> ELSE From(body, dot + 1)
    IN  AllDigits(whole) /\ AllDigits(frac) /\ Len(whole) + Len(frac) > 0

PlainValue(body) ==
    LET dot == IndexOf(body, ".")
        whole == IF dot = 0 THEN body ELSE SubSeq(body, 1, dot - 1)
        frac == IF dot = 0 THEN <<>> ELSE From(body, dot + 1)
    IN  Dec(DigitsVal(whole \o frac), -Len(frac))

\* float(s) for a decimal literal with an optional e<int> part:
\* [ok |-> whether it parses, v |-> the value]
ParseFloat(s) ==
    LET t == Strip(s)
        body == Unsigned(t)
        e == IF Contains(body, "e") THEN IndexOf(body, "e") ELSE IndexOf(body, "E")
        digs == IF e = 0 THEN body ELSE SubSeq(body, 1, e - 1)
        exp == IF e = 0 THEN <<"0">> ELSE From(body, e + 1)
        k == ParseInt(exp)
        bad == [ok |-> FALSE, v |-> Dec(0, 0)]
    IN  IF ~PlainLiteral(digs) \/ ~k.ok \/ exp # Strip(exp) THEN bad
        ELSE LET m == PlainValue(digs)
             IN  [ok |-> TRUE,
                  v |-> Shift(Dec(IF IsNegative(t) THEN -m.c ELSE m.c, m.x), k.n)]

(***************************************************************************)
(* _exponent and the class Uncertain                                       *)
(***************************************************************************)
\* _exponent(e, E=E); `sign` is always its default '+'
ExponentSuffix(e, E) ==
    IF e = 0 THEN <<>>
    ELSE IF E THEN <<"e">> \o FormatInt(e)
    ELSE <<" ", Times, " ", "1", "0", "^">> \o FormatInt(e)

\* Mutant: the constructor keeps the uncertainty as given, without np.abs
UncertainAsGiven(mean, uncertainty) ==
    [mean |-> mean, uncertainty |-> uncertainty]

\* Uncertain.__init__
Uncertain(mean, uncertainty) ==
    [mean |-> mean, uncertainty |-> DecAbs(uncertainty)]

\* What a call does: it returns text, returns an Uncertain, or raises.
\* calls counts the recursive calls made, created holds every Uncertain built.
ReturnText(text) ==
    [kind |-> "str", text |-> text, exc |-> "", calls |-> 0, created |-> {}]

Raise(exc) ==
    [kind |-> "raise", text |-> <<>>, exc |-> exc, calls |-> 0, created |-> {}]

\* the outcome of a call made from inside another: one more call, one more object
Nested(r, obj) ==
    [r EXCEPT !.calls = r.calls + 1, !.created = r.created \cup {obj}]

\* '+' in format_spec or format_spec == ''
SignFlag(format_spec) ==
    IF Contains(format_spec, "+") \/ format_spec = <<>> THEN "+" ELSE ""

\* the digits that follow position i of s: the (\d*) of the two searches
RECURSIVE DigitRun(_, _)
DigitRun(s, i) ==
    IF i <= Len(s) /\ IsDigit(s[i]) THEN <<s[i]>> \o DigitRun(s, i + 1) ELSE <<>>

\* re.search(key + '(\d*)', format_spec) and int(group()[1:]): 0 when key is
\* absent, -1 when int('') raises ValueError
SpecNumber(format_spec, key) ==
    LET i == IndexOf(format_spec, key)
        run == DigitRun(format_spec, i + 1)
    IN  IF i = 0 THEN 0
        ELSE IF run = <<>> THEN -1
        ELSE DigitsVal(run)

\* Mutant: the zero test never succeeds (`< 0` for `== 0`)
ZeroUncertaintyMissed(self) == self.uncertainty.c < 0

\* self.uncertainty == 0
ZeroUncertainty(self) == self.uncertainty.c = 0

\* int(np.floor(np.log10(sign * self.mean))) for a mean that is not 0
Exponent(self) == FloorLog10(DecAbs(self.mean))

\* Uncertain(self.mean / 10**exponent, self.uncertainty / 10**exponent)
Normalized(self, exponent) ==
    Uncertain(Shift(self.mean, -exponent), Shift(self.uncertainty, -exponent))

\* np.abs(self.uncertainty) >= np.abs(self.mean)
Dominant(self) == Geq(DecAbs(self.uncertainty), DecAbs(self.mean))

\* ({mean} ± {uncertainty}), with .{f_precision}f when f_precision is given
ExplicitForm(self, f_sign, f_precision) ==
    IF f_precision # 0
    THEN <<"(">> \o FormatFixed(self.mean, f_precision, f_sign) \o <<" ", PlusMinus, " ">>
         \o FormatFixed(self.uncertainty, f_precision, "") \o <<")">>
    ELSE <<"(">> \o FormatFloat(self.mean, f_sign) \o <<" ", PlusMinus, " ">>
         \o FormatFloat(self.uncertainty, "") \o <<")">>

\* Whether the two options exclude each other: `if f_precision and u_precision`
BothGiven(f_precision, u_precision) == f_precision # 0 /\ u_precision # 0

\* the number of digits after the point when no .precision is given
InferredDigits(self, u_precision) ==
    -FloorLog10(self.uncertainty) + (IF u_precision # 0 THEN u_precision - 1 ELSE 1)

\* the integer printed in the parentheses
Indicator(self, f_precision, digits) ==
    IF f_precision # 0 THEN TruncScaled(self.uncertainty, digits)
    ELSE CeilScaled(self.uncertainty, digits)

\* the part of __format__ below the recursion
BaseCase(self, format_spec, f_sign) ==
    LET f_precision == SpecNumber(format_spec, ".")
        u_precision == SpecNumber(format_spec, "u")
        digits == IF f_precision # 0 THEN f_precision
                  ELSE InferredDigits(self, u_precision)
    IN  IF f_precision = -1 THEN Raise("ValueError")
        ELSE IF Dominant(self)
        THEN ReturnText(ExplicitForm(self, f_sign, f_precision))
        ELSE IF u_precision = -1 THEN Raise("ValueError")
        ELSE IF BothGiven(f_precision, u_precision) THEN Raise("ValueError")
        ELSE IF digits < 0 THEN Raise("ValueError")
        ELSE ReturnText(FormatFixed(self.mean, digits, f_sign) \o <<"(">>
                        \o IntText(Indicator(self, f_precision, digits)) \o <<")">>)

\* Uncertain.__format__; depth counts the frames of the recursion
RECURSIVE Format(_, _, _)
Format(self, format_spec, depth) ==
    IF depth > MaxRecursion THEN Raise("RecursionError")
    ELSE IF Sign(self.mean) = 0 THEN Raise("OverflowError")
    ELSE
    LET exponent == Exponent(self)
        mantissa == Shift(self.mean, -exponent)
        f_sign == SignFlag(format_spec)
        E == Contains(format_spec, "e")
    IN  IF ZeroUncertainty(self)
        THEN ReturnText(FormatFloat(mantissa, f_sign) \o ExponentSuffix(exponent, E))
        ELSE IF Abs(exponent) >= 1
        THEN LET normalized == Normalized(self, exponent)
                 stem == Nested(Format(normalized, format_spec, depth + 1), normalized)
             IN  IF stem.kind = "raise" THEN stem
                 ELSE [stem EXCEPT !.text = stem.text \o ExponentSuffix(exponent, E)]
        ELSE BaseCase(self, format_spec, f_sign)

\* Uncertain.__str__
Str(self) == Format(self, <<"+", "u", "2">>, 0)

\* What from_string does: it returns an Uncertain or raises.
NoValue == Uncertain(Dec(0, 0), Dec(0, 0))

ReturnValue(u) == [kind |-> "value", value |-> u, exc |-> "", created |-> {u}]

ParseRaise(exc) == [kind |-> "raise", value |-> NoValue, exc |-> exc, created |-> {}]

\* Uncertain(u.mean * exponent, u.uncertainty * exponent), exponent = 10**k,
\* from the outcome u of the inner from_string
Scaled(u, k) ==
    LET v == Uncertain(Shift(u.value.mean, k), Shift(u.value.uncertainty, k))
    IN  [kind |-> "value", value |-> v, exc |-> "", created |-> u.created \cup {v}]

\* the `(mean ± uncertainty)` dialect, string[1:-1] given
ParseExplicit(inner) ==
    LET parts == Split(inner, PlusMinus)
        mean == ParseFloat(parts[1])
        uncertainty == ParseFloat(parts[2])
    IN  IF Len(parts) # 2 THEN ParseRaise("ValueError")
        ELSE IF ~mean.ok \/ ~uncertainty.ok THEN ParseRaise("ValueError")
        ELSE ReturnValue(Uncertain(mean.v, uncertainty.v))

\* the parenthetical-digits dialect
ParseDigits(string) ==
    LET parts == Split(string, "(")
        frac == Split(parts[1], ".")
        precision == Len(frac[2])
        digits == Split(parts[2], ")")[1]
        mean == ParseFloat(parts[1])
        uncertainty == ParseFloat(digits)
    IN  IF Len(parts) # 2 THEN ParseRaise("ValueError")
        ELSE IF Len(frac) < 2 THEN ParseRaise("IndexError")
        ELSE IF ~mean.ok \/ ~uncertainty.ok THEN ParseRaise("ValueError")
        ELSE ReturnValue(Uncertain(mean.v, Shift(uncertainty.v, -precision)))

\* Uncertain.from_string; depth counts the frames of the recursion
RECURSIVE FromString(_, _)
FromString(string, depth) ==
    IF depth > MaxRecursion THEN ParseRaise("RecursionError")
    ELSE IF Contains(string, "E")
    THEN LET parts == Split(string, "E")
             exponent == ParseInt(parts[2])
             u == FromString(parts[1], depth + 1)
         IN  IF Len(parts) # 2 \/ ~exponent.ok THEN ParseRaise("ValueError")
             ELSE IF u.kind = "raise" THEN u
             ELSE Scaled(u, exponent.n)
    ELSE IF Contains(string, Times)
    THEN LET parts == Split(string, Times)
             rest == Split(parts[2], "^")
             exponent == ParseInt(rest[2])
             u == FromString(parts[1], depth + 1)
         IN  IF Len(parts) # 2 THEN ParseRaise("ValueError")
             ELSE IF Len(rest) < 2 THEN ParseRaise("IndexError")
             ELSE IF ~exponent.ok THEN ParseRaise("ValueError")
             ELSE IF u.kind = "raise" THEN u
             ELSE Scaled(u, exponent.n)
    ELSE IF string = <<>> THEN ParseRaise("IndexError")
    ELSE IF string[1] = "(" /\ string[Len(string)] = ")"
    THEN ParseExplicit(SubSeq(string, 2, Len(string) - 1))
    ELSE ParseDigits(string)

(***************************************************************************)
(* The inputs                                                              *)
(***************************************************************************)
\* Coefficients at both ends of the two-digit range; a coefficient of two
\* digits ending in 5 would be a rounding tie and is left out.
Coefs == {c \in (1..MaxLow) \cup ((100 - MaxLow)..99) : c < 10 \/ c % 10 # 5}

Exps == (-MaxExp)..MaxExp

Means == {Dec(0, 0)} \cup {Dec(s * c, x) : s \in {-1, 1}, c \in Coefs, x \in Exps}

\* the uncertainty handed to the constructor may be negative
Uncertainties ==
    {Dec(0, 0)} \cup {Dec(c, x) : c \in Coefs, x \in Exps}
    \cup {Dec(-c, 0) : c \in 1..MaxLow}

\* Means next below a power of ten, each with an uncertainty a tenth of it
BelowExps == {0, 1, 2, 3}

BelowArguments ==
    {[mean |-> Below(s, k), uncertainty |-> Dec(1, k - 1)] : s \in {-1, 1}, k \in BelowExps}

\* An uncertainty next below the mean: Uncertain(14.0, 13.999999999999998)
AdjacentArguments ==
    {[mean |-> Dec(s * 14, 0), uncertainty |-> Below(14, 0)] : s \in {-1, 1}}

\* the arguments of the constructor
Arguments ==
    {[mean |-> mean, uncertainty |-> uncertainty] : mean \in Means, uncertainty \in Uncertainties}
    \cup BelowArguments \cup AdjacentArguments

\* format specs: the tokens '+', 'e', '.<N>', 'u<N>', each present or not
NumberTokens(key) == {<<>>} \cup {<<key, DigitChar(n)>> : n \in 0..MaxDigits}

Specs ==
    {sg \o ex \o pr \o un :
        sg \in {<<>>, <<"+">>}, ex \in {<<>>, <<"e">>},
        pr \in NumberTokens("."), un \in NumberTokens("u")}

\* strings for from_string: m(d) followed by an exponent part, the explicit
\* form, and text that is no dialect
MeanTexts == {<<"9", ".", "1">>, <<"-", "1", ".", "0", "4">>, <<"5">>}

DigitTexts == {<<"2", "8">>, <<"3">>}

ExpTexts == {FormatInt(k) : k \in {-MaxExp, MaxExp}}

Suffixes ==
    {<<>>} \cup {<<"e">> \o k : k \in ExpTexts} \cup {<<"E">> \o k : k \in ExpTexts}
    \cup {<<" ", Times, " ", "1", "0", "^">> \o k : k \in ExpTexts}
    \cup {<<Times, "1", "0", "^">> \o k : k \in ExpTexts}

DigitsString(m, d, suffix) == m \o <<"(">> \o d \o <<")">> \o suffix

Strings ==
    {DigitsString(m, d, suffix) : m \in MeanTexts, d \in DigitTexts, suffix \in Suffixes}
    \cup {<<"(", "1", " ", PlusMinus, " ", "-", "1", "0", ")">>,
          <<"(", "+", "1", ".", "5", PlusMinus, "2", ")">>,
          <<>>, <<"1", ".", "5">>, <<"1", "E", "2", "E", "3">>}

(***************************************************************************)
(* The state machine.  No object exists at the start; one is built by the  *)
(* constructor or by from_string, it is then formatted or printed, and     *)
(* what str printed is parsed back.                                        *)
(*   self         the object in hand                                       *)
(*   given        the arguments its constructor call was given             *)
(*   op           the last operation                                       *)
(*   format_spec  the spec of the last format call                         *)
(*   result       what the last format call did                            *)
(*   string       the argument of the last from_string call                *)
(*   parsed       what the last from_string call did                       *)
(***************************************************************************)
VARIABLES self, given, op, format_spec, result, string, parsed

vars == <<self, given, op, format_spec, result, string, parsed>>

NoResult == [kind |-> "none", text |-> <<>>, exc |-> "", calls |-> 0, created |-> {}]

NoParse == [kind |-> "none", value |-> NoValue, exc |-> "", created |-> {}]

NoArguments == [by |-> "none", mean |-> Dec(0, 0), uncertainty |-> Dec(0, 0)]

Init ==
    /\ self = NoValue
    /\ given = NoArguments
    /\ op = "start"
    /\ format_spec = <<>>
    /\ result = NoResult
    /\ string = <<>>
    /\ parsed = NoParse

\* self = Uncertain(mean, uncertainty)
New ==
    /\ op = "start"
    /\ \E a \in Arguments :
           /\ self' = Uncertain(a.mean, a.uncertainty)
           /\ given' = [by |-> "new", mean |-> a.mean, uncertainty |-> a.uncertainty]
    /\ op' = "new"
    /\ UNCHANGED <<format_spec, result, string, parsed>>

\* self = Uncertain.from_string(s); nothing is in hand when it raises
CallFromString ==
    /\ op = "start"
    /\ \E s \in Strings :
           /\ string' = s
           /\ parsed' = FromString(s, 0)
    /\ self' = parsed'.value
    /\ op' = "from_string"
    /\ UNCHANGED <<given, format_spec, result>>

InHand == op = "new" \/ (op = "from_string" /\ parsed.kind = "value")

\* format(self, format_spec)
CallFormat ==
    /\ InHand
    /\ \E spec \in Specs :
           /\ format_spec' = spec
           /\ result' = Format(self, spec, 0)
    /\ op' = "format"
    /\ UNCHANGED <<self, given, string, parsed>>

\* str(self)
CallStr ==
    /\ InHand
    /\ result' = Str(self)
    /\ format_spec' = <<"+", "u", "2">>
    /\ op' = "str"
    /\ UNCHANGED <<self, given, string, parsed>>

\* Uncertain.from_string(str(self))
ParseBack ==
    /\ op = "str"
    /\ result.kind = "str"
    /\ string' = result.text
    /\ parsed' = FromString(result.text, 0)
    /\ op' = "round_trip"
    /\ UNCHANGED <<self, given, format_spec, result>>

Next == New \/ CallFromString \/ CallFormat \/ CallStr \/ ParseBack

Spec == Init /\ [][Next]_vars

(***************************************************************************)
(* Reading a formatted text back, for the properties below                 *)
(***************************************************************************)
Formatted == result.kind # "none"

Returned == Formatted /\ result.kind = "str"

MeanIsZero == self.mean.c = 0

\* floor(log10(a)) of the number a > 0 itself, as opposed to what np.log10 gives
ExactFloorLog10(a) ==
    NumDigits(a.c) - 1 + a.x - (IF a.ulp = 1 /\ a.c = 1 THEN 1 ELSE 0)

\* 0 < uncertainty < |mean|
NormalCase == self.uncertainty.c > 0 /\ ~Geq(self.uncertainty, DecAbs(self.mean))

\* where the exponent suffix (' × 10^k' or 'ek') starts; past the end when absent
SuffixStart(text) ==
    IF Contains(text, Times) THEN IndexOf(text, Times) - 1
    ELSE IF Contains(text, "e") THEN IndexOf(text, "e")
    ELSE Len(text) + 1

HasSuffix(text) == SuffixStart(text) <= Len(text)

Stem(text) == SubSeq(text, 1, SuffixStart(text) - 1)

\* the integer of the suffix, 0 when there is none
SuffixInt(text) ==
    IF ~HasSuffix(text) THEN 0
    ELSE IF Contains(text, "^") THEN ParseInt(From(text, IndexOf(text, "^") + 1)).n
    ELSE ParseInt(From(text, IndexOf(text, "e") + 1)).n

IsExplicit(text) == text # <<>> /\ text[1] = "(" /\ Contains(text, PlusMinus)

IsDigitsForm(text) ==
    text # <<>> /\ text[1] # "(" /\ Contains(text, "(") /\ ~Contains(text, PlusMinus)

\* the text of the mean's mantissa
MantissaText(text) ==
    LET stem == Stem(text)
    IN  IF IsExplicit(text) THEN Strip(SubSeq(stem, 2, IndexOf(stem, PlusMinus) - 1))
        ELSE IF Contains(stem, "(") THEN SubSeq(stem, 1, IndexOf(stem, "(") - 1)
        ELSE stem

\* the digits between the parentheses
IndicatorText(text) == SubSeq(text, IndexOf(text, "(") + 1, IndexOf(text, ")") - 1)

\* digits after the point
Decimals(numeral) ==
    IF Contains(numeral, ".") THEN Len(numeral) - IndexOf(numeral, ".") ELSE 0

\* one unit of the last digit the text shows of the mean
DisplayedUnit(text) == Dec(1, SuffixInt(text) - Decimals(MantissaText(text)))

(***************************************************************************)
(* The claims                                                              *)
(***************************************************************************)

\* C1: for every value v, from_string(str(v)) returns a value, and its mean
\* and uncertainty are those of v to the last digit str(v) displays.
C1_RoundTrip ==
    op = "round_trip" =>
        /\ parsed.kind = "value"
        /\ Within(parsed.value.mean, self.mean, DisplayedUnit(result.text))
        /\ Within(parsed.value.uncertainty, self.uncertainty, DisplayedUnit(result.text))

\* C2: a spec with both a .<N> and a u<M> option makes __format__ raise
\* ValueError for every value (stated here for N, M >= 1 and a mean that is
\* not 0, where no other step of __format__ can raise first).
C2_BothOptionsRaise ==
    (/\ Formatted
     /\ ~MeanIsZero
     /\ SpecNumber(format_spec, ".") >= 1
     /\ SpecNumber(format_spec, "u") >= 1)
    => (result.kind = "raise" /\ result.exc = "ValueError")

\* C3: from_string of 'm(d)e<k>', m with p digits after its point, returns
\* mean m * 10^k and uncertainty d * 10^(-p) * 10^k.
C3_LowercaseExponent ==
    \A m \in MeanTexts, d \in DigitTexts, k \in {-MaxExp, MaxExp} :
        (/\ op = "from_string"
         /\ Contains(m, ".")
         /\ string = DigitsString(m, d, <<"e">> \o FormatInt(k)))
        => /\ parsed.kind = "value"
           /\ parsed.value.mean = Shift(ParseFloat(m).v, k)
           /\ parsed.value.uncertainty = Shift(ParseFloat(d).v, k - Decimals(m))

\* C4: for |mean| >= 10 every returned text ends with an exponent suffix whose
\* integer is floor(log10(|mean|)), and the mantissa printed before it has an
\* absolute value in [1, 10).
C4_SuffixAndMantissa ==
    (Returned /\ Geq(DecAbs(self.mean), Dec(10, 0)))
    => LET mantissa == ParseFloat(MantissaText(result.text))
       IN  /\ HasSuffix(result.text)
           /\ SuffixInt(result.text) = ExactFloorLog10(DecAbs(self.mean))
           /\ mantissa.ok
           /\ Geq(DecAbs(mantissa.v), Dec(1, 0))
           /\ ~Geq(DecAbs(mantissa.v), Dec(10, 0))

\* C5: __format__ returns a string, and raises nothing, for every value (a
\* mean of 0 included) and every spec that does not combine .<N> with u<N>.
C5_NeverFails ==
    (Formatted /\ ~(Contains(format_spec, ".") /\ Contains(format_spec, "u")))
    => result.kind = "str"

C7_IndicatorDigits ==
    (/\ Formatted
     /\ NormalCase
     /\ ~Contains(format_spec, ".")
     /\ SpecNumber(format_spec, "u") >= 0
     /\ (Contains(format_spec, "u") => SpecNumber(format_spec, "u") >= 1))
    => /\ result.kind = "str"
       /\ Len(IndicatorText(result.text))
              = (IF Contains(format_spec, "u") THEN SpecNumber(format_spec, "u") ELSE 2)

\* C8: for mean # 0 and every returned text, the explicit (mean ± uncertainty)
\* form is printed iff uncertainty >= |mean|, and the parenthetical-digits
\* form iff 0 < uncertainty < |mean|, both compared on the value itself, the
\* division by the power of ten changing nothing to the comparison.
C8_FormByDominance ==
    (Returned /\ ~MeanIsZero)
    => /\ IsExplicit(result.text) <=> Geq(self.uncertainty, DecAbs(self.mean))
       /\ IsDigitsForm(result.text) <=> NormalCase

\* C9: every Uncertain that exists has uncertainty >= 0 and the mean it was
\* given: the object the constructor built (a negative uncertainty stored as
\* its absolute value), every object from_string built, and the normalized
\* object __format__ builds; formatting leaves the object as it was built.
C9_UncertaintyNonNegative ==
    /\ self.uncertainty.c >= 0
    /\ parsed.value.uncertainty.c >= 0
    /\ \A u \in result.created \cup parsed.created : u.uncertainty.c >= 0
    /\ given.by = "new" =>
           /\ self.mean = given.mean
           /\ self.uncertainty = DecAbs(given.uncertainty)

\* C9's case: an object built from a negative uncertainty has been formatted,
\* and __format__ built its normalized object
C9_Witness ==
    /\ given.by = "new" /\ given.uncertainty.c < 0
    /\ Returned
    /\ result.created # {}

\* C10: for mean # 0 and uncertainty > 0, __format__ recurses at most once,
\* exactly when floor(log10(|mean|)) # 0, and the normalized value it recurses
\* on has exponent 0 as __format__ computes it, a mantissa with
\* 1 <= |mantissa| < 10.
C10_OneRecursion ==
    (Formatted /\ ~MeanIsZero /\ self.uncertainty.c > 0)
    => /\ result.calls = (IF ExactFloorLog10(DecAbs(self.mean)) # 0 THEN 1 ELSE 0)
       /\ \A u \in result.created :
              /\ FloorLog10(DecAbs(u.mean)) = 0
              /\ Geq(DecAbs(u.mean), Dec(1, 0))
              /\ ~Geq(DecAbs(u.mean), Dec(10, 0))

====
